---------------------------- MODULE Spec2Model ----------------------------
(***************************************************************************)
(* Model of src/script/rete_ricarica_veicoli_elettrici.js: one capture     *)
(* session (main), the response observer, the output store                 *)
(* (prepareOutputDirectory, saveResponses) and the network idle detector   *)
(* (waitForNetworkIdle).                                                   *)
(*                                                                         *)
(* JavaScript runs one callback at a time: every action below is one       *)
(* callback (or one continuation of main between two awaits) run to        *)
(* completion.  Strings are sequences of tokens.  Time is Date.now() in    *)
(* units of 10 s, so that CONFIG.networkIdleTimeout (30000 ms) is 3.       *)
(***************************************************************************)
EXTENDS Integers, Sequences, FiniteSets, TLC

(***************************************************************************)
(* Bounds of the model.                                                    *)
(***************************************************************************)
\* Date.now() when the process starts.
Epoch == 17
\* Date.now() never exceeds Epoch + MaxTime.
MaxTime == 6
\* Request events delivered to the idle detector.
MaxRequests == 2
\* Body reads (response.text()) the response observer starts.
MaxResponses == 2
\* Files a previous run left in the output directory.
MaxOldFiles == 2
\* A timer may fire up to TimerSlack units before its delay has elapsed on
\* the Date.now() clock (Node arms timers on the event loop's cached time).
TimerSlack == 1

(***************************************************************************)
(* CONFIG (lines 11-16).                                                   *)
(***************************************************************************)
networkIdleTimeout == 3
apiEndpoint == <<"api", "search">>

\* URLs of the requests whose responses the page receives.
Urls == { <<"h", "api", "search", "q">>, <<"api", "x", "search">> }


(***************************************************************************)
(* String helpers.                                                         *)
(***************************************************************************)
\* String.prototype.includes
Includes(s, pat) ==
  \E i \in 1..(Len(s) - Len(pat) + 1) : SubSeq(s, i, i + Len(pat) - 1) = pat

IsSpace(c) == c = " "

RECURSIVE TrimStart(_)
TrimStart(s) ==
  IF s # <<>> /\ IsSpace(Head(s)) THEN TrimStart(Tail(s)) ELSE s

RECURSIVE TrimEnd(_)
TrimEnd(s) ==
  IF s # <<>> /\ IsSpace(s[Len(s)]) THEN TrimEnd(SubSeq(s, 1, Len(s) - 1)) ELSE s

\* String.prototype.trim
Trim(s) == TrimEnd(TrimStart(s))

DigitChars == <<"0", "1", "2", "3", "4", "5", "6", "7", "8", "9">>

\* Number to decimal digits, as a template literal formats it.
RECURSIVE Digits(_)
Digits(n) ==
  IF n < 10
    THEN <<DigitChars[n + 1]>>
    ELSE Append(Digits(n \div 10), DigitChars[(n % 10) + 1])

\* Every file gets index 0.
fileName_NoIndex(i, timestamp) ==
  <<"response_">> \o Digits(0) \o <<"_">> \o Digits(timestamp) \o <<".json">>

\* `response_${i}_${timestamp}.json` (line 116)
fileName(i, timestamp) ==
  <<"response_">> \o Digits(i) \o <<"_">> \o Digits(timestamp) \o <<".json">>

\* Bodies response.text() can resolve with for the i-th body read: blank (it
\* trims to the empty string), or a text of its own between spaces.
Bodies(i) == { <<" ">>, <<" ", "body", DigitChars[i + 1], " ">> }

VARIABLES
  pc,              \* where main is suspended
  browser,         \* main's `browser` is set (line 27)
  steps,           \* log of the session steps and error reports, in order
  exitCode,        \* the exit status, -1 while the process runs
  now,             \* Date.now()
  responseListener, \* page.on('response') is registered (line 42)
  events,          \* the body reads started so far: url, state, body read
  responses,       \* main's `responses` array (line 41)
  captured,        \* for each element of responses, the event it came from
  dirExists,       \* CONFIG.outputDirectory exists
  files,           \* file name -> content, the entries of the directory
  prepared,        \* outcome of prepareOutputDirectory and, until
                   \* saveResponses runs, what it found
  saved,           \* outcome and inputs of saveResponses
  requestListener, \* page.on('request', onRequest) is registered (line 149)
  lastRequestTime, \* waitForNetworkIdle's lastRequestTime
  idleTimeout,     \* waitForNetworkIdle's idleTimeout: a timer handle, 0 if unset
  timers,          \* pending timers: records [id, due]
  resolveCalls,    \* calls of resolve() (line 142)
  idleResolved,    \* the promise of waitForNetworkIdle is fulfilled
  det              \* observations of the detector's run

vars ==
  << pc, browser, steps, exitCode, now, responseListener, events, responses,
     captured, dirExists, files, prepared, saved, requestListener,
     lastRequestTime, idleTimeout, timers, resolveCalls, idleResolved, det >>

mainVars == << pc, browser, steps >>
respVars == << responseListener, events, responses, captured >>
fsVars == << dirExists, files, prepared, saved >>
detVars ==
  << requestListener, lastRequestTime, idleTimeout, timers, resolveCalls,
     idleResolved, det >>

Count(s, x) == Cardinality({ i \in 1..Len(s) : s[i] = x })

\* Files response_0_<t>.json .. response_<n-1>_<t>.json a previous run saved
\* at time t = Epoch - 5.
OldFiles(n) ==
  [ name \in { fileName(i, Epoch - 5) : i \in 0..(n - 1) } |-> <<"old">> ]

NoPrepare == [ state |-> "no", existed |-> FALSE, entries |-> 0 ]

NoSave == [ state |-> "no", payloads |-> <<>>, timestamp |-> 0, names |-> <<>> ]

\* start: Date.now() when the wait started; requests: request events
\* delivered to onRequest; lastRequest: Date.now() at the latest of them;
\* fired: timers that have fired.
NoDet == [ start |-> -1, requests |-> 0, lastRequest |-> -1, fired |-> 0 ]

Init ==
  /\ pc = "start"
  /\ browser = FALSE
  /\ steps = <<>>
  /\ exitCode = -1
  /\ now = Epoch
  /\ responseListener = FALSE
  /\ events = <<>>
  /\ responses = <<>>
  /\ captured = <<>>
  /\ dirExists \in BOOLEAN
  /\ \E n \in 0..MaxOldFiles : files = OldFiles(IF dirExists THEN n ELSE 0)
  /\ prepared = NoPrepare
  /\ saved = NoSave
  /\ requestListener = FALSE
  /\ lastRequestTime = 0
  /\ idleTimeout = 0
  /\ timers = {}
  /\ resolveCalls = 0
  /\ idleResolved = FALSE
  /\ det = NoDet


Running == exitCode = -1

(***************************************************************************)
(* The output store.                                                       *)
(***************************************************************************)
Restrict(f, S) == [ x \in S |-> f[x] ]

\* The loop stops one entry short and reports success.
prepareOutputDirectory_KeepsOne(exists, fs, deleted) ==
  IF exists /\ DOMAIN fs # {}
    THEN [ files |-> Restrict(fs, { CHOOSE n \in DOMAIN fs : TRUE }), ok |-> TRUE ]
    ELSE [ files |-> fs, ok |-> TRUE ]

\* prepareOutputDirectory (lines 86-100).  deleted is the set of entries
\* unlinkSync removed before one unlinkSync threw; all of them when none did.
prepareOutputDirectory(exists, fs, deleted) ==
  IF exists
    THEN [ files |-> Restrict(fs, DOMAIN fs \ deleted), ok |-> deleted = DOMAIN fs ]
    ELSE [ files |-> fs, ok |-> TRUE ]

\* fs.writeFileSync: create or overwrite.
writeFileSync(fs, name, data) == (name :> data) @@ fs

\* The loop of saveResponses (lines 115-120), from index i up to n - 1.
RECURSIVE WriteLoop(_, _, _, _, _)
WriteLoop(fs, rs, timestamp, i, n) ==
  IF i >= n
    THEN fs
    ELSE WriteLoop(writeFileSync(fs, fileName(i, timestamp), rs[i + 1]),
                   rs, timestamp, i + 1, n)

\* The loop catches the failing write, goes on with the next payload and
\* reports the failure at the end.
saveResponses_KeepsGoing(rs, fs, timestamp, failAt) ==
  [ files |-> WriteLoop(WriteLoop(fs, rs, timestamp, 0, failAt),
                        rs, timestamp, failAt + 1, Len(rs)),
    ok |-> failAt = Len(rs),
    names |-> [ i \in 1..failAt |-> fileName(i - 1, timestamp) ] ]

\* saveResponses (lines 106-121).  failAt is the index whose writeFileSync
\* throws, Len(rs) when none does.
saveResponses(rs, fs, timestamp, failAt) ==
  [ files |-> WriteLoop(fs, rs, timestamp, 0, failAt),
    ok |-> failAt = Len(rs),
    names |-> [ i \in 1..failAt |-> fileName(i - 1, timestamp) ] ]

(***************************************************************************)
(* main (lines 21-81).                                                     *)
(***************************************************************************)
\* The exit status once main is at p and the timers in pending are left:
\* the process ends with 0 when main has returned and nothing is pending.
ExitWhenDrained(p, pending) == IF p = "done" /\ pending = {} THEN 0 ELSE -1

\* finally without the `if(browser)` test.
Finally_Always(log, b) ==
  /\ steps' = Append(log, "close")
  /\ pc' = "closing"

\* finally (lines 74-80): b is main's `browser`.
Finally(log, b) ==
  /\ steps' = IF b THEN Append(log, "close") ELSE log
  /\ pc' = IF b THEN "closing" ELSE "done"

\* catch without a finally: the browser is not released on the error path.
CatchFinally_NoRelease(log, b) ==
  /\ steps' = Append(log, "error")
  /\ pc' = "done"

\* catch (lines 72-73), then finally.
CatchFinally(log, b) == Finally(Append(log, "error"), b)

\* waitForNetworkIdle called without await.
AwaitIdle_NoAwait == requestListener

\* `await waitForNetworkIdle(...)` (line 66) lets main go on.
AwaitIdle == idleResolved

\* main's continuation after the idle wait is a microtask: it runs before
\* any other callback.
MicrotaskPending == pc = "waitIdle" /\ AwaitIdle

\* puppeteer.launch (line 27)
Launch ==
  /\ Running /\ pc = "start"
  /\ \E ok \in BOOLEAN :
       IF ok
         THEN /\ browser' = TRUE
              /\ steps' = Append(steps, "launch")
              /\ pc' = "newPage"
         ELSE /\ browser' = FALSE
              /\ CatchFinally(steps, FALSE)
  /\ exitCode' = ExitWhenDrained(pc', timers)
  /\ UNCHANGED << now, respVars, fsVars, detVars >>

\* browser.newPage (line 30)
NewPage ==
  /\ Running /\ pc = "newPage"
  /\ \E ok \in BOOLEAN :
       IF ok
         THEN steps' = Append(steps, "newPage") /\ pc' = "cdp"
         ELSE CatchFinally(steps, browser)
  /\ UNCHANGED << browser, exitCode, now, respVars, fsVars, detVars >>

\* page.createCDPSession (line 34)
CreateCDPSession ==
  /\ Running /\ pc = "cdp"
  /\ \E ok \in BOOLEAN :
       IF ok
         THEN steps' = Append(steps, "cdp") /\ pc' = "prepare"
         ELSE CatchFinally(steps, browser)
  /\ UNCHANGED << browser, exitCode, now, respVars, fsVars, detVars >>

\* prepareOutputDirectory, page.on('response') and the call of page.goto
\* (lines 38-61)
Prepare ==
  /\ Running /\ pc = "prepare"
  /\ \E deleted \in SUBSET (DOMAIN files) :
       LET r == prepareOutputDirectory(dirExists, files, deleted) IN
       /\ files' = r.files
       /\ prepared' = [ state |-> IF r.ok THEN "ok" ELSE "failed",
                        existed |-> dirExists,
                        entries |-> Cardinality(DOMAIN files) ]
       /\ IF r.ok
            THEN /\ responseListener' = TRUE
                 /\ steps' = steps \o <<"prepare", "onResponse", "goto">>
                 /\ pc' = "goto"
            ELSE /\ responseListener' = FALSE
                 /\ CatchFinally(Append(steps, "prepare"), browser)
  /\ UNCHANGED << browser, exitCode, now, events, responses, captured,
                  dirExists, saved, detVars >>

(***************************************************************************)
(* waitForNetworkIdle (lines 128-154).                                     *)
(***************************************************************************)
\* A handle no pending timer has and idleTimeout does not hold.
FreshHandle(pending) ==
  CHOOSE h \in 1..(Cardinality(pending) + 2) :
    /\ h # idleTimeout
    /\ \A t \in pending : t.id # h

\* setTimeout(checkIdle, timeout): the timer is due timeout from now.
setTimeout(pending, timeout) ==
  pending \cup { [ id |-> FreshHandle(pending), due |-> now + timeout ] }

clearTimeout(pending, handle) == { t \in pending : t.id # handle }

\* The executor of the promise (lines 130-152), run by main's continuation
\* after page.goto.
startWaitForNetworkIdle(timeout) ==
  /\ lastRequestTime' = now
  /\ requestListener' = TRUE
  /\ timers' = setTimeout(timers, timeout)
  /\ idleTimeout' = FreshHandle(timers)
  /\ UNCHANGED << idleResolved, resolveCalls >>

\* onRequest only records the time: the pending check is left as it is.
onRequest_NoRearm(timeout) ==
  /\ lastRequestTime' = now
  /\ UNCHANGED << timers, idleTimeout, requestListener, idleResolved,
                  resolveCalls >>

\* onRequest without clearTimeout: the earlier check stays scheduled.
onRequest_NoClear(timeout) ==
  /\ lastRequestTime' = now
  /\ timers' = setTimeout(timers, timeout)
  /\ idleTimeout' = FreshHandle(timers)
  /\ UNCHANGED << requestListener, idleResolved, resolveCalls >>

\* onRequest (lines 133-137)
onRequest(timeout) ==
  /\ lastRequestTime' = now
  /\ timers' = setTimeout(clearTimeout(timers, idleTimeout), timeout)
  /\ idleTimeout' = FreshHandle(clearTimeout(timers, idleTimeout))
  /\ UNCHANGED << requestListener, idleResolved, resolveCalls >>

\* checkIdle logs the idle state and never calls resolve.
checkIdle_NoResolve(pending, timeout) ==
  IF now - lastRequestTime >= timeout
    THEN /\ timers' = pending
         /\ UNCHANGED << requestListener, lastRequestTime, idleTimeout,
                         idleResolved, resolveCalls >>
    ELSE /\ timers' = setTimeout(clearTimeout(pending, idleTimeout), timeout)
         /\ idleTimeout' = FreshHandle(clearTimeout(pending, idleTimeout))
         /\ UNCHANGED << requestListener, lastRequestTime, idleResolved,
                         resolveCalls >>

\* checkIdle without the elapsed-time test.
checkIdle_NoGuard(pending, timeout) ==
  /\ idleResolved' = TRUE
  /\ resolveCalls' = resolveCalls + 1
  /\ timers' = pending
  /\ UNCHANGED << requestListener, lastRequestTime, idleTimeout >>

\* checkIdle with > for >=.
checkIdle_Strict(pending, timeout) ==
  IF now - lastRequestTime > timeout
    THEN /\ idleResolved' = TRUE
         /\ resolveCalls' = resolveCalls + 1
         /\ timers' = pending
         /\ UNCHANGED << requestListener, lastRequestTime, idleTimeout >>
    ELSE /\ timers' = setTimeout(clearTimeout(pending, idleTimeout), timeout)
         /\ idleTimeout' = FreshHandle(clearTimeout(pending, idleTimeout))
         /\ UNCHANGED << requestListener, lastRequestTime, idleResolved,
                         resolveCalls >>

\* checkIdle (lines 139-147), run by a timer that has just left pending.
checkIdle(pending, timeout) ==
  IF now - lastRequestTime >= timeout
    THEN /\ idleResolved' = TRUE
         /\ resolveCalls' = resolveCalls + 1
         /\ timers' = pending
         /\ UNCHANGED << requestListener, lastRequestTime, idleTimeout >>
    ELSE /\ timers' = setTimeout(clearTimeout(pending, idleTimeout), timeout)
         /\ idleTimeout' = FreshHandle(clearTimeout(pending, idleTimeout))
         /\ UNCHANGED << requestListener, lastRequestTime, idleResolved,
                         resolveCalls >>

\* The navigation error is swallowed and main goes on to the idle wait.
Goto_ContinuesAfterError ==
  /\ Running /\ pc = "goto"
  /\ \E ok \in BOOLEAN :
       /\ steps' = IF ok THEN Append(steps, "waitIdle")
                         ELSE steps \o << "error", "waitIdle" >>
       /\ pc' = "waitIdle"
       /\ startWaitForNetworkIdle(networkIdleTimeout)
       /\ det' = [ det EXCEPT !.start = now ]
  /\ UNCHANGED << browser, exitCode, now, respVars, fsVars >>

\* page.goto settles (line 61); on success main starts the idle wait
\* (lines 62-66).
Goto ==
  /\ Running /\ pc = "goto"
  /\ \E ok \in BOOLEAN :
       IF ok
         THEN /\ steps' = Append(steps, "waitIdle")
              /\ pc' = "waitIdle"
              /\ startWaitForNetworkIdle(networkIdleTimeout)
              /\ det' = [ det EXCEPT !.start = now ]
         ELSE /\ CatchFinally(steps, browser)
              /\ UNCHANGED detVars
  /\ UNCHANGED << browser, exitCode, now, respVars, fsVars >>

\* main's continuation after the idle wait: saveResponses, then finally
\* (lines 69-80).  From here on the directory is no longer as
\* prepareOutputDirectory left it, and what that found is forgotten.
Save ==
  /\ Running /\ MicrotaskPending
  /\ \E failAt \in 0..Len(responses) :
       LET r == saveResponses(responses, files, now, failAt) IN
       /\ files' = r.files
       /\ dirExists' = TRUE
       /\ saved' = [ state |-> IF r.ok THEN "ok" ELSE "failed",
                     payloads |-> responses, timestamp |-> now,
                     names |-> r.names ]
       /\ IF r.ok
            THEN Finally(Append(steps, "save"), browser)
            ELSE CatchFinally(Append(steps, "save"), browser)
  /\ prepared' = [ prepared EXCEPT !.existed = FALSE, !.entries = 0 ]
  /\ UNCHANGED << browser, exitCode, now, respVars, detVars >>

\* A body read still pending when the browser closes never delivers a body.
DropPending(es) ==
  [ i \in 1..Len(es) |->
      IF es[i].read = "pending" THEN [ es[i] EXCEPT !.read = "failed" ] ELSE es[i] ]

\* browser.close settles (line 77).  Its failure is the one error that
\* leaves main: the top-level handler reports it and exits with 1
\* (lines 157-160).  Otherwise main returns, and the process ends with 0
\* as soon as no timer is pending.
Close ==
  /\ Running /\ pc = "closing"
  /\ pc' = "done"
  /\ events' = DropPending(events)
  /\ \E ok \in BOOLEAN :
       IF ok
         THEN steps' = steps /\ exitCode' = ExitWhenDrained(pc', timers)
         ELSE steps' = Append(steps, "unhandled") /\ exitCode' = 1
  /\ UNCHANGED << browser, now, responseListener, responses, captured,
                  fsVars, detVars >>

(***************************************************************************)
(* Events of the page and of the clock.                                    *)
(***************************************************************************)
PageAlive == pc \in { "goto", "waitIdle", "closing" }

Quiet == Running /\ ~MicrotaskPending

\* The handler of 'response' up to its await (lines 42-49): es are the body
\* reads started so far.
onResponse(es, url) ==
  IF Includes(url, apiEndpoint)
    THEN Append(es, [ url |-> url, body |-> <<>>, read |-> "pending" ])
    ELSE es

\* The body is tested without trim().
pushResponse_NoTrim(rs, responseText) ==
  IF responseText # <<>> THEN Append(rs, responseText) ELSE rs

\* The handler of 'response' after response.text() resolved (lines 50-52).
pushResponse(rs, responseText) ==
  IF Trim(responseText) # <<>> THEN Append(rs, responseText) ELSE rs

\* A 'response' event; one whose URL does not match changes nothing.
Response ==
  /\ Quiet /\ PageAlive /\ responseListener
  /\ Len(events) < MaxResponses
  /\ \E url \in Urls : events' = onResponse(events, url)
  /\ UNCHANGED << mainVars, exitCode, now, responseListener, responses,
                  captured, fsVars, detVars >>

\* The handler also writes a body pushed after saveResponses ran.
ReadDone_WritesLate ==
  /\ Quiet /\ PageAlive
  /\ \E i \in 1..Len(events) : \E text \in Bodies(i) :
       /\ events[i].read = "pending"
       /\ events' = [ events EXCEPT ![i].read = "ok", ![i].body = text ]
       /\ responses' = pushResponse(responses, text)
       /\ captured' = IF Len(responses') > Len(responses)
                        THEN Append(captured, i)
                        ELSE captured
       /\ files' = IF saved.state # "no" /\ Len(responses') > Len(responses)
                     THEN writeFileSync(files,
                            fileName(Len(responses), saved.timestamp), text)
                     ELSE files
  /\ UNCHANGED << mainVars, exitCode, now, responseListener, dirExists,
                  prepared, saved, detVars >>

\* response.text() resolves for one pending read, in any order.
ReadDone ==
  /\ Quiet /\ PageAlive
  /\ \E i \in 1..Len(events) : \E text \in Bodies(i) :
       /\ events[i].read = "pending"
       /\ events' = [ events EXCEPT ![i].read = "ok", ![i].body = text ]
       /\ responses' = pushResponse(responses, text)
       /\ captured' = IF Len(responses') > Len(responses)
                        THEN Append(captured, i)
                        ELSE captured
  /\ UNCHANGED << mainVars, exitCode, now, responseListener, fsVars, detVars >>

\* The handler has no try/catch: the rejection is unhandled and ends the
\* process.
ReadFail_Unhandled ==
  /\ Quiet /\ PageAlive
  /\ \E i \in 1..Len(events) :
       /\ events[i].read = "pending"
       /\ events' = [ events EXCEPT ![i].read = "failed" ]
  /\ exitCode' = 1
  /\ UNCHANGED << mainVars, now, responseListener, responses, captured,
                  fsVars, detVars >>

\* response.text() rejects: the catch logs it (lines 53-55).
ReadFail ==
  /\ Quiet /\ PageAlive
  /\ \E i \in 1..Len(events) :
       /\ events[i].read = "pending"
       /\ events' = [ events EXCEPT ![i].read = "failed" ]
  /\ UNCHANGED << mainVars, exitCode, now, responseListener, responses,
                  captured, fsVars, detVars >>

\* A 'request' event reaches onRequest once the listener is registered.
Request ==
  /\ Quiet /\ PageAlive /\ requestListener
  /\ det.requests < MaxRequests
  /\ onRequest(networkIdleTimeout)
  /\ det' = [ det EXCEPT !.requests = @ + 1, !.lastRequest = now ]
  /\ UNCHANGED << mainVars, exitCode, now, respVars, fsVars >>

\* A pending timer fires and runs checkIdle.
Fire ==
  /\ Quiet
  /\ \E t \in timers :
       /\ now + TimerSlack >= t.due
       /\ checkIdle(timers \ { t }, networkIdleTimeout)
  /\ steps' = IF ~idleResolved /\ idleResolved' THEN Append(steps, "idle") ELSE steps
  /\ det' = [ det EXCEPT !.fired = @ + 1 ]
  /\ exitCode' = ExitWhenDrained(pc, timers')
  /\ UNCHANGED << pc, browser, now, respVars, fsVars >>

\* Date.now() advances.  It is first read when the idle wait starts.
Tick ==
  /\ Quiet
  /\ pc \in { "waitIdle", "closing", "done" }
  /\ pc = "done" => timers # {}
  /\ now < Epoch + MaxTime
  /\ now' = now + 1
  /\ UNCHANGED << mainVars, exitCode, respVars, fsVars, detVars >>

Next ==
  \/ Launch
  \/ NewPage
  \/ CreateCDPSession
  \/ Prepare
  \/ Goto
  \/ Save
  \/ Close
  \/ Response
  \/ ReadDone
  \/ ReadFail
  \/ Request
  \/ Fire
  \/ Tick

Spec == Init /\ [][Next]_vars

\* The clock does not stop while main awaits the idle promise: past the
\* horizon of Tick, Date.now() still advances until the pending timer is due.
TimerTick ==
  /\ Quiet
  /\ pc = "waitIdle"
  /\ timers # {}
  /\ now >= Epoch + MaxTime
  /\ \A t \in timers : now < t.due
  /\ now' = now + 1
  /\ UNCHANGED << mainVars, exitCode, respVars, fsVars, detVars >>

LiveNext == Next \/ TimerTick

\* The event loop under fair scheduling: time passes, a timer that is due
\* runs its callback, and the continuation of a settled await runs.
LiveSpec ==
  /\ Init
  /\ [][LiveNext]_vars
  /\ WF_vars(Tick \/ TimerTick)
  /\ WF_vars(Fire)
  /\ WF_vars(Save)

(***************************************************************************)
(* Properties.                                                             *)
(***************************************************************************)
Has(s, x) == \E i \in 1..Len(s) : s[i] = x

\* Position of the first x in s.
Pos(s, x) == CHOOSE i \in 1..Len(s) : s[i] = x /\ \A j \in 1..(i - 1) : s[j] # x

\* The step of the behaviour that fulfils the promise of waitForNetworkIdle.
IdleSignal == ~idleResolved /\ idleResolved'

\* C1: the idle signal never occurs before (time of the latest request event
\* delivered to the detector) + timeout, and the wait is resolved once: the
\* log holds at most one idle signal and main goes on to save at most once.
IdleSignalNotBeforeLastRequest ==
  [][ /\ (IdleSignal /\ det.requests > 0) =>
           now >= det.lastRequest + networkIdleTimeout
      /\ Count(steps', "idle") <= 1
      /\ Count(steps', "save") <= 1 ]_vars

\* Two request events, each less than the timeout after the previous event,
\* and the idle signal just given, the timeout after the second.
DebouncedIdleSignalled ==
  /\ pc = "waitIdle" /\ idleResolved
  /\ det.requests = 2
  /\ det.lastRequest > det.start
  /\ det.lastRequest - det.start < networkIdleTimeout
  /\ now = det.lastRequest + networkIdleTimeout

NavigationFailed ==
  Has(steps, "goto") /\ ~Has(steps, "waitIdle") /\ Has(steps, "error")

SessionSteps ==
  { "launch", "newPage", "cdp", "prepare", "onResponse", "goto", "waitIdle",
    "save", "close" }

\* C4: browser.close is invoked at most once, only after a successful
\* launch, and no session step follows it; when main has left the try
\* block it has been invoked exactly once if puppeteer.launch succeeded and
\* not at all if it failed.
BrowserClosedOnceLast ==
  /\ Count(steps, "close") <= 1
  /\ Has(steps, "close") =>
       /\ Has(steps, "launch")
       /\ \A i \in 1..Len(steps) :
            i > Pos(steps, "close") => steps[i] \notin SessionSteps
  /\ pc \in { "closing", "done" } => (Has(steps, "close") <=> Has(steps, "launch"))

\* saveResponses failed, the browser was closed once and main has returned.
ClosedAfterSaveFailure ==
  /\ pc = "done" /\ saved.state = "failed"
  /\ Count(steps, "close") = 1
  /\ steps[Len(steps)] = "close"

\* C5 as stated: an exit status of 0 means that no step of the session
\* failed.
ExitStatusZeroOnlyOnSuccess == exitCode = 0 => ~Has(steps, "error")

\* C6: every element of responses is the body, verbatim, of a response
\* whose request URL contains the endpoint and whose body read succeeded
\* with a body that is not blank; no other response adds an element.
CapturedOnlyMatchingNonBlank ==
  /\ Len(captured) = Len(responses)
  /\ \A i \in 1..Len(events) : Includes(events[i].url, apiEndpoint)
  /\ \A k \in 1..Len(responses) :
       LET e == events[captured[k]] IN
       /\ Includes(e.url, apiEndpoint)
       /\ e.read = "ok"
       /\ e.body = responses[k]
       /\ Trim(e.body) # <<>>
  /\ \A j, k \in 1..Len(captured) : captured[j] = captured[k] => j = k

\* One body was captured and one, read successfully but blank, was not.
BlankBodyExcluded ==
  /\ Len(responses) = 1
  /\ \E i \in 1..Len(events) :
       /\ events[i].read = "ok"
       /\ events[i].body # <<>>
       /\ Trim(events[i].body) = <<>>
       /\ \A k \in 1..Len(captured) : captured[k] # i

\* C7 as stated: the bodies in responses are in the order in which their
\* response events were observed.
ArrivalOrderPreserved ==
  \A j, k \in 1..Len(captured) : j < k => captured[j] < captured[k]

\* C8: once prepareOutputDirectory has returned without error, and until
\* saveResponses runs, the directory has no entries and exists exactly if
\* it existed before; prepareOutputDirectory fails only on a directory
\* that exists and has entries.
PrepareLeavesDirectoryEmpty ==
  /\ (prepared.state = "ok" /\ saved.state = "no") =>
       /\ DOMAIN files = {}
       /\ dirExists = prepared.existed
  /\ prepared.state = "failed" => (prepared.existed /\ prepared.entries > 0)

\* The directory held two files, prepareOutputDirectory succeeded, and
\* saveResponses has not run yet.
PreparedTwoOldFiles ==
  /\ prepared.state = "ok" /\ prepared.existed /\ prepared.entries = 2
  /\ pc = "waitIdle" /\ saved.state = "no"

\* The digit that c writes.
DigitValue(c) == CHOOSE d \in 0..9 : DigitChars[d + 1] = c

RECURSIVE FromDigits(_)
FromDigits(ds) ==
  IF ds = <<>>
    THEN 0
    ELSE 10 * FromDigits(SubSeq(ds, 1, Len(ds) - 1)) + DigitValue(ds[Len(ds)])

\* Position of the "_" between the index and the timestamp of a file name.
Separator(name) == CHOOSE j \in 2..Len(name) : name[j] = "_"

EmbeddedIndex(name) == FromDigits(SubSeq(name, 2, Separator(name) - 1))

EmbeddedTimestamp(name) ==
  FromDigits(SubSeq(name, Separator(name) + 1, Len(name) - 1))

\* C9: after a successful saveResponses of K payloads the directory holds
\* exactly K files; their embedded indices are 0..K-1, each once; the file
\* with index i holds payload i verbatim; all names carry the one
\* timestamp of the call.
SaveWritesPayloadsByIndex ==
  saved.state = "ok" =>
    LET K == Len(saved.payloads) IN
    /\ Cardinality(DOMAIN files) = K
    /\ Len(saved.names) = K
    /\ \A i \in 1..K : saved.names[i] \in DOMAIN files
    /\ \A n \in DOMAIN files :
         /\ EmbeddedIndex(n) \in 0..(K - 1)
         /\ files[n] = saved.payloads[EmbeddedIndex(n) + 1]
         /\ EmbeddedTimestamp(n) = saved.timestamp
    /\ \A n, m \in DOMAIN files : EmbeddedIndex(n) = EmbeddedIndex(m) => n = m

\* Two different payloads were saved.
SavedTwoPayloads ==
  /\ saved.state = "ok"
  /\ Len(saved.payloads) = 2
  /\ saved.payloads[1] # saved.payloads[2]

StepOrder ==
  << "launch", "newPage", "cdp", "prepare", "onResponse", "goto", "waitIdle",
     "idle", "save", "close" >>

Rank(x) == CHOOSE r \in 1..Len(StepOrder) : StepOrder[r] = x

\* C10: the session steps occur in the order prepare, response observer
\* registered, navigation triggered, idle wait started, idle signalled,
\* save, browser close, none of them without the one before it (close
\* excepted, which may follow any of them); saveResponses runs only after
\* the idle signal.
SessionStepsInOrder ==
  /\ LET log == SelectSeq(steps, LAMBDA x : x \notin { "error", "unhandled" }) IN
     /\ \A i \in 1..(Len(log) - 1) : Rank(log[i]) < Rank(log[i + 1])
     /\ \A i \in 1..Len(log) :
          log[i] \notin { "launch", "close" } =>
            Has(log, StepOrder[Rank(log[i]) - 1])
  /\ Has(steps, "goto") => responseListener
  /\ Has(steps, "waitIdle") => requestListener
  /\ saved.state # "no" => (idleResolved /\ Has(steps, "save"))

\* A session that went through every step, saved a payload and returned.
FullSessionDone ==
  /\ pc = "done" /\ saved.state = "ok"
  /\ Len(saved.payloads) >= 1
  /\ Has(steps, "close")

\* The step in which response.text() rejects for one pending body read
\* (browser.close settling is what else ends a pending read).
ReadFailure ==
  /\ ~(pc = "closing" /\ pc' = "done")
  /\ \E i \in 1..Len(events) :
       events[i].read = "pending" /\ events'[i].read = "failed"

\* C11: a rejected response.text() adds nothing to responses, leaves its
\* elements as they are, and leaves the session where it is: no error is
\* reported, main stays at its step, the idle wait and the process go on.
ReadFailureIsNotFatal ==
  [][ ReadFailure =>
        /\ responses' = responses
        /\ captured' = captured
        /\ steps' = steps
        /\ pc' = pc
        /\ exitCode' = exitCode
        /\ timers' = timers
        /\ idleResolved' = idleResolved ]_vars

\* The first body read failed, the second, started later, was captured, and
\* the session went through the idle wait and saved it with no error.
CapturedAfterReadFailure ==
  /\ Len(events) = 2
  /\ events[1].read = "failed"
  /\ captured = <<2>>
  /\ saved.state = "ok" /\ saved.payloads = responses
  /\ ~Has(steps, "error")

\* page.goto rejected: the error is reported right after the goto step.
GotoFailed ==
  \E i \in 1..(Len(steps) - 1) : steps[i] = "goto" /\ steps[i + 1] = "error"

\* C12: after a failed navigation the idle detector is never started (no
\* request listener, no timer, no idle signal), saveResponses is never
\* called and no file is written, and the only step that still runs is the
\* browser teardown.
NavFailAbortsPipeline ==
  GotoFailed =>
    /\ ~requestListener /\ timers = {} /\ ~idleResolved /\ resolveCalls = 0
    /\ det = NoDet
    /\ ~Has(steps, "waitIdle") /\ ~Has(steps, "idle") /\ ~Has(steps, "save")
    /\ saved = NoSave
    /\ DOMAIN files = {}
    /\ prepared.state = "ok" /\ dirExists = prepared.existed
    /\ \A i \in 1..Len(steps) :
         steps[i] = "error" =>
           \A j \in (i + 1)..Len(steps) : steps[j] \in { "close", "unhandled" }
    /\ pc \in { "closing", "done" }

\* Navigation failed after a matching response had been captured, and the
\* session is over with the browser closed.
NavFailNothingSaved ==
  /\ GotoFailed
  /\ Len(responses) >= 1
  /\ Has(steps, "close")
  /\ pc = "done" /\ exitCode = 0

\* C13: when the write of payload i throws inside saveResponses, the files
\* of payloads 0..i-1 are in the directory, each holding its payload, no
\* file of index i or above exists, and the error reaches main's catch:
\* "save" is followed by "error" and then by the browser teardown, and
\* saveResponses is not called again.
SaveFailsFast ==
  saved.state = "failed" =>
    LET i == Len(saved.names)
        K == Len(saved.payloads) IN
    /\ i < K
    /\ Cardinality(DOMAIN files) = i
    /\ \A k \in 1..i :
         /\ saved.names[k] \in DOMAIN files
         /\ EmbeddedIndex(saved.names[k]) = k - 1
    /\ \A n \in DOMAIN files :
         /\ EmbeddedIndex(n) \in 0..(i - 1)
         /\ files[n] = saved.payloads[EmbeddedIndex(n) + 1]
    /\ Count(steps, "save") = 1
    /\ \E p \in 1..(Len(steps) - 2) :
         /\ steps[p] = "save" /\ steps[p + 1] = "error"
         /\ steps[p + 2] = "close"
         /\ \A q \in (p + 3)..Len(steps) : steps[q] = "unhandled"
    /\ pc \in { "closing", "done" }

\* The write of the second of two payloads failed: the first is on disk.
SecondWriteFailed ==
  /\ saved.state = "failed"
  /\ Len(saved.payloads) = 2
  /\ Len(saved.names) = 1
  /\ pc = "done"

\* C14: once the wait is resolved the detector does nothing further: no
\* step changes lastRequestTime, schedules a check, fires a check or calls
\* resolve again.
IdleIsTerminal ==
  [][ idleResolved =>
        /\ lastRequestTime' = lastRequestTime
        /\ timers' = timers
        /\ idleTimeout' = idleTimeout
        /\ resolveCalls' = resolveCalls
        /\ det'.fired = det.fired ]_vars

\* C15: at most one idle check is pending in every reachable state, and it
\* is the one idleTimeout names; while the detector is waiting exactly one
\* is pending, after a request as well as after a check that re-armed.
AtMostOnePendingCheck ==
  /\ Cardinality(timers) <= 1
  /\ \A t \in timers : t.id = idleTimeout
  /\ (requestListener /\ ~idleResolved) => Cardinality(timers) = 1

\* A request replaced the pending check and a check fired early and
\* re-armed: one check is pending and the detector still waits.
RearmedAfterRequest ==
  /\ pc = "waitIdle" /\ ~idleResolved
  /\ det.requests >= 1 /\ det.fired >= 1
  /\ Cardinality(timers) = 1

\* A check fires before the idle signal with less than the timeout elapsed
\* since lastRequestTime.
PrematureCheck ==
  /\ det'.fired = det.fired + 1
  /\ ~idleResolved
  /\ now - lastRequestTime < networkIdleTimeout

\* C16: a check that fires prematurely leaves the detector waiting and
\* schedules the next check for the remaining time, so that the pending
\* check is due exactly at lastRequestTime + T.
PrematureCheckWaitsRemainingTime ==
  [][ PrematureCheck =>
        /\ ~idleResolved'
        /\ lastRequestTime' = lastRequestTime
        /\ timers' # {}
        /\ \A t \in timers' : t.due = lastRequestTime + networkIdleTimeout ]_vars

\* A check fires and its timer was due: it did not fire early.
CheckFiresOnTime ==
  /\ det'.fired = det.fired + 1
  /\ \E t \in timers \ timers' : now >= t.due

\* C17: a check that fires no earlier than its timer was due finds at least
\* the timeout elapsed since lastRequestTime, so it takes the resolve
\* branch and never the re-check branch.
OnTimeCheckNeverRearms ==
  [][ CheckFiresOnTime =>
        /\ now - lastRequestTime >= networkIdleTimeout
        /\ idleResolved'
        /\ timers' = {} ]_vars

\* The one check that fired did so exactly the timeout after the only
\* request, and signalled idle.
OnTimeCheckAfterRequest ==
  /\ pc = "waitIdle" /\ idleResolved
  /\ det.requests = 1 /\ det.fired = 1
  /\ det.lastRequest > det.start
  /\ now = lastRequestTime + networkIdleTimeout

\* The bodies the files of the directory hold.
Written == { files[n] : n \in DOMAIN files }

\* C19: what saveResponses read is the capture sequence as it was when it
\* ran; after a successful save the files hold exactly those payloads, one
\* file each; a body appended to responses after that stays in memory only:
\* no file holds it, however the session goes on.
OnlyCapturedAtSaveIsWritten ==
  saved.state # "no" =>
    LET K == Len(saved.payloads) IN
    /\ Len(responses) >= K
    /\ SubSeq(responses, 1, K) = saved.payloads
    /\ saved.state = "ok" =>
         /\ Written = { saved.payloads[k] : k \in 1..K }
         /\ Cardinality(DOMAIN files) = K
    /\ saved.state = "failed" =>
         Written \subseteq { saved.payloads[k] : k \in 1..K }
    /\ \A k \in (K + 1)..Len(responses) : responses[k] \notin Written

\* One body was saved; another read completed while the browser was
\* closing and was pushed, and the session ended without a file for it.
LateBodyNotWritten ==
  /\ saved.state = "ok"
  /\ Len(saved.payloads) = 1
  /\ Len(responses) = 2
  /\ Cardinality(DOMAIN files) = 1
  /\ pc = "done" /\ exitCode = 0

\* The latest request is less than the timeout old.
RequestsKeepArriving ==
  /\ det.requests >= 1
  /\ now - det.lastRequest < networkIdleTimeout

\* C18: the request events after the start of the detector being finitely
\* many (at most MaxRequests), under fair timer firing the idle signal
\* eventually occurs and the session goes on to saveResponses and to
\* browser.close; and however long the wait has lasted, as long as the
\* latest request is less than the timeout old there is no idle signal and
\* no save: no overall timeout ends the wait.
IdleWaitEndsUnlessRequestsKeepArriving ==
  /\ (pc = "waitIdle") ~>
       (Has(steps, "idle") /\ Has(steps, "save") /\ Has(steps, "close"))
  /\ [](pc = "waitIdle" /\ RequestsKeepArriving =>
          /\ ~idleResolved /\ resolveCalls = 0
          /\ ~Has(steps, "idle") /\ ~Has(steps, "save")
          /\ saved = NoSave)

\* The wait has lasted longer than the timeout and is still on, requests
\* having arrived with gaps below the timeout.
StillWaitingPastTimeout ==
  /\ pc = "waitIdle" /\ ~idleResolved
  /\ det.requests = 2
  /\ RequestsKeepArriving
  /\ now - det.start > networkIdleTimeout
=============================================================================
